---- MODULE Spec2Model ----
(***************************************************************************)
(* Model of config.py, the experiment configuration module of DCASE2021.   *)
(* The module body is straight-line code: four path assignments, the start *)
(* of a Matlab engine session, a path computation, eng.addpath, the audio  *)
(* analysis constants, the label scheme and the class-name lookup.  Each   *)
(* statement is one action; pc names the statement about to execute.       *)
(***************************************************************************)
EXTENDS Integers, Sequences, FiniteSets, TLC

VARIABLES
    pc,        \* "unloaded", the line about to execute ("l12".."l32"), "loaded", "failed"
    ns,        \* the module namespace: name -> value, for the names bound so far
    sessions,  \* ids of the running Matlab engine sessions
    nextSid,   \* id the next started session gets
    engPath,   \* session id -> sequence of directories added with addpath
    calls,     \* the external calls of the current load, in order: <<function, outcome>>
    raised,    \* "none", or the external call whose error left the module body
    fate,      \* environment: outcome of each external call of the current load
    exists,    \* environment: the path values that are existing directories
    loadNo,    \* number of the current execution of the module body (0 before the first)
    history,   \* one record per completed load: what the collaborator returned, what is observable
    requests   \* requests downstream callers have issued against eng since the load

vars == <<pc, ns, sessions, nextSid, engPath, calls, raised, fate, exists,
          loadNo, history, requests>>

---------------------------------------------------------------------------
(* Bounds of the model *)
MaxNames == 14      \* the collaborator returns at most this many names
MaxLoads == 2       \* executions of the module body (first import plus reloads)
MaxRequests == 2    \* downstream requests against the engine handle

---------------------------------------------------------------------------
(* The literals of config.py *)
data_folder_path == "/home/pans/datasets/DCASE2021/foa_dev/dev-train"
stft_folder_path == "/home/pans/datasets/DCASE2021/stft_foa_dev/dev-train"
csv_file_path == "/home/pans/datasets/DCASE2021/metadata_dev/dev-train"
matlab_path == "/home/pans/source/DCASE2021/multiple-target-tracking-master"

fs == 24000
window_size == 2400
window_overlap == 1200
nfft == 2400
\* 0.1 s, kept exact as the rational 1/10
frame_length == <<1, 10>>
num_classes == 13

\* __file__ of the module as path components; line 19 takes its directory
module_file == <<"home", "pans", "source", "DCASE2021", "config.py">>

PathNames == {"data_folder_path", "stft_folder_path", "csv_file_path", "matlab_path"}
SignalNames == {"fs", "window_size", "window_overlap", "nfft", "frame_length"}
LabelNames == {"num_classes", "undefined_classID", "class_name_dict"}
ObservableNames == PathNames \cup SignalNames \cup LabelNames
PathValues == {data_folder_path, stft_folder_path, csv_file_path, matlab_path}

ExternalCalls == {"start_matlab", "addpath", "get_class_name_dict"}
Outcomes == {"ok", "raise"}

---------------------------------------------------------------------------
(* The label-naming collaborator utils.get_class_name_dict: it returns a   *)
(* mapping from class index to class name.  What it returns is not decided *)
(* by config.py, so the model lets it return any of these mappings: the    *)
(* first k names for k up to MaxNames, or such a mapping with one index    *)
(* missing.                                                                *)
ClassName(i) == <<"class", i>>
NameMap(D) == [i \in D |-> ClassName(i)]
Domains ==
    {0 .. (k - 1) : k \in 0 .. MaxNames}
        \cup {(0 .. (num_classes - 1)) \ {g} : g \in 0 .. (num_classes - 1)}
Mappings == {NameMap(D) : D \in Domains}

\* os.path.dirname(os.path.abspath(__file__)): the path without its last component
Dirname(p) == SubSeq(p, 1, Len(p) - 1)

\* name = value in the module namespace (a rebinding replaces the old value)
Bind(n, name, val) == (name :> val) @@ n

\* the values another module reads from the configuration
Observable(n) == [k \in ObservableNames |-> n[k]]

\* variant: indices the collaborator left out are filled with a default name
StoredFilled(d) ==
    [i \in (DOMAIN d) \cup (0 .. (num_classes - 1)) |->
        IF i \in DOMAIN d THEN d[i] ELSE <<"class", "undefined">>]

\* what line 32 stores for a returned mapping d: d itself, unvalidated
Stored(d) == d

---------------------------------------------------------------------------
Init ==
    /\ pc = "unloaded"
    /\ ns = <<>>
    /\ sessions = {}
    /\ nextSid = 1
    /\ engPath = <<>>
    /\ calls = <<>>
    /\ raised = "none"
    /\ fate \in [ExternalCalls -> Outcomes]
    /\ exists \in SUBSET PathValues
    /\ loadNo = 0
    /\ history = <<>>
    /\ requests = 0

\* variant: the body is entered again although the module is already loaded
BeginAgain ==
    /\ pc \in {"unloaded", "loaded"}
    /\ pc' = "l12"
    /\ loadNo' = loadNo + 1
    /\ UNCHANGED <<ns, sessions, nextSid, engPath, calls, raised, fate, exists,
                   history, requests>>

\* lines 1-8: the interpreter starts executing the module body (docstring, imports)
Begin ==
    /\ pc = "unloaded"
    /\ pc' = "l12"
    /\ loadNo' = loadNo + 1
    /\ UNCHANGED <<ns, sessions, nextSid, engPath, calls, raised, fate, exists,
                   history, requests>>

\* a plain assignment statement: name = val
Assign(from, to, name, val) ==
    /\ pc = from
    /\ pc' = to
    /\ ns' = Bind(ns, name, val)
    /\ UNCHANGED <<sessions, nextSid, engPath, calls, raised, fate, exists,
                   loadNo, history, requests>>

\* variant: the error is caught and the body goes on with the constants
AbortCaught(fn) ==
    /\ pc' = "l23"
    /\ raised' = fn
    /\ calls' = Append(calls, <<fn, "raise">>)
    /\ UNCHANGED <<ns, sessions, nextSid, engPath, fate, exists, loadNo,
                   history, requests>>

\* variant: the failed call is tried again
AbortRetry(fn) ==
    /\ pc' = pc
    /\ raised' = fn
    /\ calls' = Append(calls, <<fn, "raise">>)
    /\ fate' = [fate EXCEPT ![fn] = "ok"]
    /\ UNCHANGED <<ns, sessions, nextSid, engPath, exists, loadNo, history,
                   requests>>

\* variant: the engine session is shut down when the load is aborted
AbortQuit(fn) ==
    /\ pc' = "failed"
    /\ raised' = fn
    /\ calls' = Append(calls, <<fn, "raise">>)
    /\ sessions' = {}
    /\ UNCHANGED <<ns, nextSid, engPath, fate, exists, loadNo, history,
                   requests>>

\* an external call raises: nothing in the module catches it, the body is left
Abort(fn) ==
    /\ pc' = "failed"
    /\ raised' = fn
    /\ calls' = Append(calls, <<fn, "raise">>)
    /\ UNCHANGED <<ns, sessions, nextSid, engPath, fate, exists, loadNo,
                   history, requests>>

\* variant: the matlab directory is checked for existence when it is assigned
Line15Checked ==
    /\ pc = "l15"
    /\ IF matlab_path \in exists
         THEN /\ pc' = "l18"
              /\ ns' = Bind(ns, "matlab_path", matlab_path)
              /\ UNCHANGED raised
         ELSE /\ pc' = "failed"
              /\ raised' = "matlab_path"
              /\ UNCHANGED ns
    /\ UNCHANGED <<sessions, nextSid, engPath, calls, fate, exists, loadNo,
                   history, requests>>

Line12 == Assign("l12", "l13", "data_folder_path", data_folder_path)
Line13 == Assign("l13", "l14", "stft_folder_path", stft_folder_path)
Line14 == Assign("l14", "l15", "csv_file_path", csv_file_path)
Line15 == Assign("l15", "l18", "matlab_path", matlab_path)

\* eng = engine.start_matlab()
Line18 ==
    /\ pc = "l18"
    /\ \/ /\ fate["start_matlab"] = "ok"
          /\ pc' = "l19"
          /\ sessions' = sessions \cup {nextSid}
          /\ engPath' = (nextSid :> <<>>) @@ engPath
          /\ nextSid' = nextSid + 1
          /\ ns' = Bind(ns, "eng", nextSid)
          /\ calls' = Append(calls, <<"start_matlab", "ok">>)
          /\ UNCHANGED <<raised, fate, exists, loadNo, history, requests>>
       \/ /\ fate["start_matlab"] = "raise"
          /\ Abort("start_matlab")

\* variant: the addpath statement is left out
Line19SkipAddpath == Assign("l19", "l23", "this_file_path", Dirname(module_file))

\* this_file_path = os.path.dirname(os.path.abspath(__file__))
Line19 == Assign("l19", "l20", "this_file_path", Dirname(module_file))

\* eng.addpath(matlab_path)
Line20 ==
    /\ pc = "l20"
    /\ \/ /\ fate["addpath"] = "ok"
          /\ pc' = "l23"
          /\ engPath' = [engPath EXCEPT ![ns["eng"]] = Append(@, ns["matlab_path"])]
          /\ calls' = Append(calls, <<"addpath", "ok">>)
          /\ UNCHANGED <<ns, sessions, nextSid, raised, fate, exists, loadNo,
                         history, requests>>
       \/ /\ fate["addpath"] = "raise"
          /\ Abort("addpath")

\* variant: the overlap is set to the whole window
Line25FullOverlap == Assign("l25", "l26", "window_overlap", window_size)

\* variant: the class count grows by one each time the body runs
Line29Accum ==
    Assign("l29", "l30", "num_classes",
           IF "num_classes" \in DOMAIN ns THEN ns["num_classes"] + 1 ELSE num_classes)

\* variant: the sentinel is the class count itself
Line30OffByOne == Assign("l30", "l32", "undefined_classID", ns["num_classes"])

Line23 == Assign("l23", "l24", "fs", fs)
Line24 == Assign("l24", "l25", "window_size", window_size)
Line25 == Assign("l25", "l26", "window_overlap", window_overlap)
Line26 == Assign("l26", "l27", "nfft", nfft)
Line27 == Assign("l27", "l29", "frame_length", frame_length)
Line29 == Assign("l29", "l30", "num_classes", num_classes)

\* undefined_classID = num_classes - 1, read from the namespace
Line30 == Assign("l30", "l32", "undefined_classID", ns["num_classes"] - 1)

\* class_name_dict = get_class_name_dict(): the result is stored as returned
Line32 ==
    /\ pc = "l32"
    /\ \/ /\ fate["get_class_name_dict"] = "ok"
          /\ \E d \in Mappings :
                /\ ns' = Bind(ns, "class_name_dict", Stored(d))
                /\ history' = Append(history, [ret |-> d, obs |-> Observable(ns')])
          /\ pc' = "loaded"
          /\ calls' = Append(calls, <<"get_class_name_dict", "ok">>)
          /\ UNCHANGED <<sessions, nextSid, engPath, raised, fate, exists,
                         loadNo, requests>>
       \/ /\ fate["get_class_name_dict"] = "raise"
          /\ Abort("get_class_name_dict")

\* after the load other modules read the values and issue requests against eng
Use ==
    /\ pc = "loaded"
    /\ requests < MaxRequests
    /\ ns["eng"] \in sessions
    /\ requests' = requests + 1
    /\ UNCHANGED <<pc, ns, sessions, nextSid, engPath, calls, raised, fate,
                   exists, loadNo, history>>

\* the module body is executed again in the same namespace (importlib.reload)
Reload ==
    /\ pc = "loaded"
    /\ loadNo < MaxLoads
    /\ pc' = "l12"
    /\ loadNo' = loadNo + 1
    /\ calls' = <<>>
    /\ raised' = "none"
    /\ requests' = 0
    /\ fate' \in [ExternalCalls -> Outcomes]
    /\ UNCHANGED <<ns, sessions, nextSid, engPath, exists, history>>

Body ==
    \/ Line12 \/ Line13 \/ Line14 \/ Line15
    \/ Line18 \/ Line19 \/ Line20
    \/ Line23 \/ Line24 \/ Line25 \/ Line26 \/ Line27
    \/ Line29 \/ Line30 \/ Line32

\* one process: the module is loaded once and read thereafter
Next == Begin \/ Body \/ Use

Spec == Init /\ [][Next]_vars

\* the module body may be executed again
NextReload == Begin \/ Body \/ Use \/ Reload

SpecReload == Init /\ [][NextReload]_vars

loaded == pc = "loaded"
failed == pc = "failed"

---------------------------------------------------------------------------
(* Properties *)

Complete(d) == (0 .. (num_classes - 1)) \subseteq DOMAIN d
CallsOf(fn) == {i \in DOMAIN calls : calls[i][1] = fn}
CallOrder == <<"start_matlab", "addpath", "get_class_name_dict">>
AllOk == \A f \in ExternalCalls : fate[f] = "ok"

\* C1 (as stated): no load ends in the loaded state with a class_name_dict
\* that lacks an index of 0 .. num_classes-1.
C1Original == loaded => Complete(ns["class_name_dict"])

\* C1 (amended): the returned mapping is stored unvalidated: a load whose
\* collaborator call returns ends loaded with class_name_dict equal to the
\* mapping returned, whatever its keys, and the load fails at that step only
\* when the collaborator itself raises.
C1Amended ==
    /\ loaded => ns["class_name_dict"] = history[Len(history)].ret
    /\ raised = "get_class_name_dict" => fate["get_class_name_dict"] = "raise"
    /\ (pc \in {"loaded", "failed"} /\ AllOk) => loaded

\* a load that ended loaded with only 10 names for 13 classes
C1Witness ==
    /\ loaded
    /\ DOMAIN ns["class_name_dict"] = 0 .. 9
    /\ ns["num_classes"] = 13

\* C2 (as stated): after a failed engine start none of the paths, signal
\* constants or label scheme is assigned.
C2Original == raised = "start_matlab" => (DOMAIN ns) \cap ObservableNames = {}

\* C2 (amended): after a failed engine start the load is aborted, no session
\* runs and no signal constant or label value is assigned; the four paths,
\* assigned before the engine start, are the only names bound.
C2Amended ==
    raised = "start_matlab" =>
        /\ failed
        /\ sessions = {}
        /\ (DOMAIN ns) \cap (SignalNames \cup LabelNames) = {}
        /\ DOMAIN ns = PathNames

\* the engine start has raised
C2Witness == failed /\ raised = "start_matlab" /\ calls = <<<<"start_matlab", "raise">>>>

\* C3: whenever the context is loaded, undefined_classID = num_classes - 1,
\* which is 12 for the 13 classes of the module.
C3Theorem ==
    /\ "undefined_classID" \in DOMAIN ns =>
          ns["undefined_classID"] = ns["num_classes"] - 1
    /\ loaded => ns["num_classes"] = 13 /\ ns["undefined_classID"] = 12

\* loaded with a collaborator that returned the 13 names
C3Witness ==
    /\ loaded
    /\ DOMAIN ns["class_name_dict"] = 0 .. 12
    /\ ns["undefined_classID"] = 12

\* C4: any two completed loads in which the collaborator returned the same
\* mapping leave the same paths, signal constants and label scheme.
C4Theorem ==
    \A i, j \in DOMAIN history :
        history[i].ret = history[j].ret => history[i].obs = history[j].obs

\* two completed loads with the same mapping, each with its own engine session
C4Witness ==
    /\ loaded
    /\ Len(history) = 2
    /\ history[1].ret = history[2].ret
    /\ Cardinality(sessions) = 2
    /\ ns["eng"] = 2

\* C5: an external call that raises is the last call of the load, ends it in
\* the failed state with that call reported, and no call is made twice.
C5Theorem ==
    /\ \A i \in DOMAIN calls :
          calls[i][2] = "raise" =>
              /\ i = Len(calls)
              /\ failed
              /\ raised = calls[i][1]
    /\ \A f \in ExternalCalls : Cardinality(CallsOf(f)) <= 1
    /\ failed <=> raised # "none"
    /\ loaded => Cardinality(CallsOf("start_matlab")) = 1
    /\ Cardinality(sessions) = Cardinality({i \in CallsOf("start_matlab") : calls[i][2] = "ok"})

\* addpath has raised after a successful engine start
C5Witness ==
    /\ failed
    /\ raised = "addpath"
    /\ calls = <<<<"start_matlab", "ok">>, <<"addpath", "raise">>>>

\* C6: the signal constants have their default values, with
\* window_overlap < window_size and nfft >= window_size.
C6Theorem ==
    loaded =>
        /\ ns["window_overlap"] < ns["window_size"]
        /\ ns["nfft"] >= ns["window_size"]
        /\ ns["fs"] = 24000
        /\ ns["window_size"] = 2400
        /\ ns["window_overlap"] = 1200
        /\ ns["nfft"] = 2400
        /\ ns["frame_length"] = <<1, 10>>

\* loaded, all five signal constants bound
C6Witness == loaded /\ SignalNames \subseteq DOMAIN ns /\ ns["window_size"] = 2400

\* C7: once loaded, every step leaves the context loaded and leaves the
\* paths, signal constants and label scheme as they are.
C7Theorem ==
    [][loaded => (loaded' /\ Observable(ns') = Observable(ns))]_vars

\* steps have been taken in the loaded state
C7Witness == loaded /\ requests = MaxRequests

\* C8: the load fails only at one of the three external calls and succeeds
\* exactly when all three succeed, whichever of the four directories exist.
C8Theorem ==
    /\ raised \in {"none"} \cup ExternalCalls
    /\ failed => fate[raised] = "raise"
    /\ (pc \in {"loaded", "failed"} /\ AllOk) => loaded

\* loaded although none of the four directories exists
C8Witness == loaded /\ exists = {}

\* C9: the external calls are made in the order start_matlab, addpath,
\* get_class_name_dict, each after the one before it succeeded; addpath is
\* issued once, on the session the start returned, with matlab_path.
C9Theorem ==
    /\ Len(calls) <= 3
    /\ \A i \in DOMAIN calls :
          /\ calls[i][1] = CallOrder[i]
          /\ i < Len(calls) => calls[i][2] = "ok"
    /\ loaded => Len(calls) = 3
    /\ Len(calls) >= 3 => pc \in {"loaded", "failed"}
    /\ (Len(calls) >= 2 /\ calls[2][2] = "ok") =>
          /\ ns["eng"] \in sessions
          /\ engPath[ns["eng"]] = <<matlab_path>>
    /\ \A s \in DOMAIN engPath : Len(engPath[s]) <= 1

\* the lookup was made after addpath succeeded on the started session
C9Witness ==
    /\ loaded
    /\ calls = <<<<"start_matlab", "ok">>, <<"addpath", "ok">>,
                 <<"get_class_name_dict", "ok">>>>
    /\ engPath[ns["eng"]] = <<matlab_path>>

\* C10: a started engine session keeps running in every later state, also
\* when addpath or get_class_name_dict has aborted the load.
C10Theorem ==
    /\ (Len(calls) >= 1 /\ calls[1] = <<"start_matlab", "ok">>) =>
          ns["eng"] \in sessions
    /\ (failed /\ raised \in {"addpath", "get_class_name_dict"}) =>
          sessions # {}

\* the load was aborted by the lookup while the session runs
C10Witness ==
    /\ failed
    /\ raised = "get_class_name_dict"
    /\ ns["eng"] \in sessions
====
